---------------------------- MODULE Spec2Model ----------------------------
(***************************************************************************)
(* A model of the route generation pipeline of aleino/peloton              *)
(* (src/data/routing/scripts): the bidirectional deduplication of          *)
(* RouteAnalyzer, the preparation of station pairs by RoutePipeline and    *)
(* the retrying HTTP client RouteGenerator.                                *)
(*                                                                         *)
(* Station ids are the strings of the HSL data ("030", "067", ...).        *)
(***************************************************************************)
EXTENDS Integers, Sequences, FiniteSets, TLC

VARIABLES
    \* ValhallaConfig.max_retries (config.py:212)
    max_retries,
    \* RouteGenerator fields (route_generator.py:34-37)
    routes_generated, routes_failed, total_requests, failed_routes,
    \* generate_batch: its argument, the loop position, its local list
    station_pairs, i, routes,
    \* generate_route: the loop variable and the returned value
    attempt, result,
    \* control position of the pipeline / batch / call
    pc,
    \* history of the call in progress: HTTP posts sent, delays waited,
    \* outcome of the last post, whether every post so far failed transiently,
    \* and the counters as they were when the call was entered
    posts, sleeps, last_outcome, only_transient, pre,
    \* history of the batch: the pairs generate_route was called with and
    \* what each call returned
    calls, results,
    \* deduplicate_bidirectional: argument, loop position and locals
    dd_routes, dd_idx, seen_keys, unique_routes, reverse_map,
    \* _generate_geometries: the coordinates lookup it is given
    station_coords,
    \* the trips table of the database: the number of trips of each
    \* (departure, return) pair
    trips,
    \* a call of one of RouteAnalyzer's selection functions: its argument
    \* (n or coverage_pct) and what it returned
    sel_arg, selected,
    \* main: the parsed command line, the PipelineConfig built from it and the
    \* value main returns
    args, config, exit_code,
    \* RouteAnalyzer.conn, the stations that have a row in the stations table,
    \* and the steps the run has taken so far
    conn, stations_table, run_log,
    \* RoutePipeline fields (generate_routes.py:84-86; bidirectional_map is
    \* reverse_map) and the local station_routes of run
    global_routes, per_station_routes, station_routes,
    \* the output directory: file name -> content
    files

vars == <<max_retries, routes_generated, routes_failed, total_requests,
          failed_routes, station_pairs, i, routes, attempt, result, pc,
          posts, sleeps, last_outcome, only_transient, pre, calls, results,
          dd_routes, dd_idx, seen_keys, unique_routes, reverse_map,
          station_coords, trips, sel_arg, selected, args, config, exit_code,
          conn, stations_table, run_log, global_routes, per_station_routes,
          station_routes, files>>

genVars == <<max_retries, routes_generated, routes_failed, total_requests,
             failed_routes, station_pairs, i, routes, attempt, result,
             posts, sleeps, last_outcome, only_transient, pre, calls, results>>

ddVars == <<dd_routes, dd_idx, seen_keys, unique_routes, reverse_map,
            station_coords>>

\* the database table and the selection call
selVars == <<trips, sel_arg, selected>>

\* main and RoutePipeline.run
runVars == <<args, config, exit_code, conn, stations_table, run_log,
             global_routes, per_station_routes, station_routes, files>>

\* Python's None, for an Optional[RouteGeometry]: the value v is <<v>>
None == <<>>

Some(v) == <<v>>

-----------------------------------------------------------------------------
(* Bounds of the model *)

\* largest max_retries explored (the default is 3)
MaxRetries == 3
\* longest list handed to generate_batch
MaxBatch == 2
\* longest list handed to deduplicate_bidirectional
MaxLen == 3

-----------------------------------------------------------------------------
(* Station ids and keys *)

\* The station ids of the model, in the order Python's sorted() gives them
\* (str comparison, code point by code point).
IdOrder == <<"030", "045", "067">>

Stations == {IdOrder[k] : k \in 1..Len(IdOrder)}

IdRank(s) == CHOOSE k \in 1..Len(IdOrder) : IdOrder[k] = s

\* a < b on str
StrLess(a, b) == IdRank(a) < IdRank(b)

\* a mutant: the list is left in the order it was given
Sorted2AsGiven(a, b) == <<a, b>>

\* sorted([a, b])
Sorted2(a, b) == IF StrLess(b, a) THEN <<b, a>> ELSE <<a, b>>

\* a mutant: the key keeps the direction
RouteKeyUnsorted(a, b) == a \o "-" \o b

\* stations = sorted([a, b]); f"{stations[0]}-{stations[1]}"
RouteKey(a, b) == Sorted2(a, b)[1] \o "-" \o Sorted2(a, b)[2]

\* RouteStatistics.route_key
StatKey(r) == RouteKey(r.departure_station_id, r.return_station_id)


\* the ordered pairs of distinct stations
OrderedPairs == {p \in Stations \X Stations : p[1] # p[2]}

\* the station pairs batches are made of: those of the example of
\* deduplicate_bidirectional's docstring
BatchPairs == {<<"030", "067">>, <<"067", "030">>, <<"030", "045">>}

\* the sequences over S of length at most n
SeqsUpTo(S, n) == UNION {[1..k -> S] : k \in 0..n}

-----------------------------------------------------------------------------
(* RouteGenerator (route_generator.py) *)

\* What one session.post + raise_for_status + parsing of the answer can do:
\*   ok                a 200 answer with a leg, from which a RouteGeometry is built
\*   no_legs           a 200 answer whose trip has no leg
\*   unexpected        an exception that is no requests.RequestException
\*                     (RouteGeometry refusing an empty polyline, a malformed body)
\*   http_400          raise_for_status raises HTTPError, status 400
\*   http_4xx          HTTPError with another client-error status (404, 429, ...)
\*   http_5xx          HTTPError with a server-error status
\*   timeout           requests.Timeout
\*   connection_error  requests.ConnectionError
Outcomes == {"ok", "no_legs", "unexpected", "http_400", "http_4xx", "http_5xx",
             "timeout", "connection_error"}

HttpErrors == {"http_400", "http_4xx", "http_5xx"}

ClientErrors == {"http_400", "http_4xx"}

RequestExceptions == {"timeout", "connection_error"}

\* timeouts, connection errors and 5xx answers
Transient == {"http_5xx", "timeout", "connection_error"}

\* type(e).__name__ of the exception an outcome raises
ErrorType(o) ==
    CASE o \in HttpErrors -> "HTTPError"
      [] o = "timeout" -> "Timeout"
      [] o = "connection_error" -> "ConnectionError"
      [] OTHER -> "ValueError"

\* the pair generate_route is working on
CurFrom == station_pairs[i + 1][1]
CurTo == station_pairs[i + 1][2]

\* the RouteGeometry built at lines 140-152; the polyline, the distance and
\* the duration stand for what the service returns for the requested
\* direction
Geometry(from, to) ==
    [route_key |-> RouteKey(from, to),
     departure_station_id |-> from,
     return_station_id |-> to,
     polyline |-> from \o ">" \o to,
     distance_km |-> 10 * IdRank(from) + IdRank(to),
     duration_minutes |-> 40 * IdRank(from) + 4 * IdRank(to)]

\* an entry of failed_routes
FailureEntry(from, to, reason, etype) ==
    [from |-> from, to |-> to, reason |-> reason, error_type |-> etype]

Counters ==
    [routes_generated |-> routes_generated, routes_failed |-> routes_failed,
     total_requests |-> total_requests, ledger |-> Len(failed_routes)]

\* history of the call: one more post was sent and ended with outcome o
Posted(o) ==
    /\ posts' = posts + 1
    /\ last_outcome' = o
    /\ only_transient' = (only_transient /\ o \in Transient)

\* "return v" in generate_route
Return(v) ==
    /\ result' = v
    /\ results' = Append(results, v)
    /\ pc' = "returned"
    /\ attempt' = attempt

\* time.sleep(retry_delay_seconds), then the next iteration of
\* "for attempt in range(1, max_retries + 1)"; the loop running out is the
\* "return None" of line 232
SleepAndLoop ==
    /\ sleeps' = sleeps + 1
    /\ IF attempt + 1 <= max_retries
          THEN /\ attempt' = attempt + 1
               /\ pc' = "post"
               /\ UNCHANGED <<result, results>>
          ELSE /\ attempt' = attempt
               /\ pc' = "returned"
               /\ result' = None
               /\ results' = Append(results, None)

\* a mutant: retries while attempt <= max_retries
CanRetryOffByOne == attempt <= max_retries

\* attempt < self.valhalla.max_retries (lines 182, 197)
CanRetry == attempt < max_retries

\* a mutant: the attempt count goes on from call to call
CallGenerateRouteSharedAttempts ==
    /\ pc = "batch"
    /\ i < Len(station_pairs)
    /\ calls' = Append(calls, station_pairs[i + 1])
    /\ pre' = Counters
    /\ posts' = 0
    /\ sleeps' = 0
    /\ last_outcome' = "none"
    /\ only_transient' = TRUE
    /\ attempt' = attempt
    /\ result' = None
    /\ IF attempt <= max_retries
          THEN /\ pc' = "post"
               /\ results' = results
          ELSE /\ pc' = "returned"
               /\ results' = Append(results, None)
    /\ UNCHANGED <<max_retries, routes_generated, routes_failed, total_requests,
                   failed_routes, station_pairs, i, routes>>
    /\ UNCHANGED ddVars
    /\ UNCHANGED <<selVars, runVars>>

\* generate_batch calls generate_route(from_station, to_station) (line 252);
\* generate_route enters its retry loop (line 98)
CallGenerateRoute ==
    /\ pc = "batch"
    /\ i < Len(station_pairs)
    /\ calls' = Append(calls, station_pairs[i + 1])
    /\ pre' = Counters
    /\ posts' = 0
    /\ sleeps' = 0
    /\ last_outcome' = "none"
    /\ only_transient' = TRUE
    /\ attempt' = 1
    /\ result' = None
    /\ IF 1 <= max_retries
          THEN /\ pc' = "post"
               /\ results' = results
          ELSE /\ pc' = "returned"
               /\ results' = Append(results, None)
    /\ UNCHANGED <<max_retries, routes_generated, routes_failed, total_requests,
                   failed_routes, station_pairs, i, routes>>
    /\ UNCHANGED ddVars
    /\ UNCHANGED <<selVars, runVars>>

\* lines 100-163: the post succeeds with a leg and a valid geometry
PostOk ==
    /\ pc = "post"
    /\ total_requests' = total_requests + 1
    /\ Posted("ok")
    /\ routes_generated' = routes_generated + 1
    /\ Return(Some(Geometry(CurFrom, CurTo)))
    /\ sleeps' = sleeps
    /\ UNCHANGED <<max_retries, routes_failed, failed_routes, station_pairs, i,
                   routes, pre, calls>>
    /\ UNCHANGED ddVars
    /\ UNCHANGED <<selVars, runVars>>

\* a mutant: an answer without a leg is retried like a transport error
PostNoLegsRetried ==
    /\ pc = "post"
    /\ total_requests' = total_requests + 1
    /\ Posted("no_legs")
    /\ IF CanRetry
          THEN /\ SleepAndLoop
               /\ routes_failed' = routes_failed
          ELSE /\ routes_failed' = routes_failed + 1
               /\ Return(None)
               /\ sleeps' = sleeps
    /\ UNCHANGED <<max_retries, routes_generated, failed_routes, station_pairs, i,
                   routes, pre, calls>>
    /\ UNCHANGED ddVars
    /\ UNCHANGED <<selVars, runVars>>

\* lines 100-120: the answer has no leg
PostNoLegs ==
    /\ pc = "post"
    /\ total_requests' = total_requests + 1
    /\ Posted("no_legs")
    /\ routes_failed' = routes_failed + 1
    /\ Return(None)
    /\ sleeps' = sleeps
    /\ UNCHANGED <<max_retries, routes_generated, failed_routes, station_pairs, i,
                   routes, pre, calls>>
    /\ UNCHANGED ddVars
    /\ UNCHANGED <<selVars, runVars>>

\* a mutant: HTTP 400 is retried like any other HTTP error
PostHttp400Retried ==
    /\ pc = "post"
    /\ total_requests' = total_requests + 1
    /\ Posted("http_400")
    /\ IF CanRetry
          THEN /\ SleepAndLoop
               /\ UNCHANGED <<routes_failed, failed_routes>>
          ELSE /\ failed_routes' = Append(failed_routes,
                      FailureEntry(CurFrom, CurTo, "Route not possible (HTTP 400)",
                                   "HTTPError"))
               /\ routes_failed' = routes_failed + 1
               /\ Return(None)
               /\ sleeps' = sleeps
    /\ UNCHANGED <<max_retries, routes_generated, station_pairs, i,
                   routes, pre, calls>>
    /\ UNCHANGED ddVars
    /\ UNCHANGED <<selVars, runVars>>

\* lines 165-181: HTTPError with status 400
PostHttp400 ==
    /\ pc = "post"
    /\ total_requests' = total_requests + 1
    /\ Posted("http_400")
    /\ failed_routes' = Append(failed_routes,
           FailureEntry(CurFrom, CurTo, "Route not possible (HTTP 400)", "HTTPError"))
    /\ routes_failed' = routes_failed + 1
    /\ Return(None)
    /\ sleeps' = sleeps
    /\ UNCHANGED <<max_retries, routes_generated, station_pairs, i,
                   routes, pre, calls>>
    /\ UNCHANGED ddVars
    /\ UNCHANGED <<selVars, runVars>>

\* a mutant: every client-error status is definitive, only 5xx is retried
PostHttpErrorClientDefinitive ==
    /\ pc = "post"
    /\ \E o \in HttpErrors \ {"http_400"} :
          /\ total_requests' = total_requests + 1
          /\ Posted(o)
          /\ IF CanRetry /\ o \notin ClientErrors
                THEN /\ SleepAndLoop
                     /\ routes_failed' = routes_failed
                ELSE /\ routes_failed' = routes_failed + 1
                     /\ Return(None)
                     /\ sleeps' = sleeps
    /\ UNCHANGED <<max_retries, routes_generated, failed_routes, station_pairs, i,
                   routes, pre, calls>>
    /\ UNCHANGED ddVars
    /\ UNCHANGED <<selVars, runVars>>

\* lines 165, 182-194: HTTPError with any other status
PostHttpError ==
    /\ pc = "post"
    /\ \E o \in HttpErrors \ {"http_400"} :
          /\ total_requests' = total_requests + 1
          /\ Posted(o)
          /\ IF CanRetry
                THEN /\ SleepAndLoop
                     /\ routes_failed' = routes_failed
                ELSE /\ routes_failed' = routes_failed + 1
                     /\ Return(None)
                     /\ sleeps' = sleeps
    /\ UNCHANGED <<max_retries, routes_generated, failed_routes, station_pairs, i,
                   routes, pre, calls>>
    /\ UNCHANGED ddVars
    /\ UNCHANGED <<selVars, runVars>>

\* a mutant: the call that runs out of attempts is entered in the ledger but
\* not counted
PostRequestExceptionUncounted ==
    /\ pc = "post"
    /\ \E o \in RequestExceptions :
          /\ total_requests' = total_requests + 1
          /\ Posted(o)
          /\ IF CanRetry
                THEN /\ SleepAndLoop
                     /\ UNCHANGED <<routes_failed, failed_routes>>
                ELSE /\ failed_routes' = Append(failed_routes,
                            FailureEntry(CurFrom, CurTo, o, ErrorType(o)))
                     /\ routes_failed' = routes_failed
                     /\ Return(None)
                     /\ sleeps' = sleeps
    /\ UNCHANGED <<max_retries, routes_generated, station_pairs, i,
                   routes, pre, calls>>
    /\ UNCHANGED ddVars
    /\ UNCHANGED <<selVars, runVars>>

\* lines 196-217: any other requests.RequestException
PostRequestException ==
    /\ pc = "post"
    /\ \E o \in RequestExceptions :
          /\ total_requests' = total_requests + 1
          /\ Posted(o)
          /\ IF CanRetry
                THEN /\ SleepAndLoop
                     /\ UNCHANGED <<routes_failed, failed_routes>>
                ELSE /\ failed_routes' = Append(failed_routes,
                            FailureEntry(CurFrom, CurTo, o, ErrorType(o)))
                     /\ routes_failed' = routes_failed + 1
                     /\ Return(None)
                     /\ sleeps' = sleeps
    /\ UNCHANGED <<max_retries, routes_generated, station_pairs, i,
                   routes, pre, calls>>
    /\ UNCHANGED ddVars
    /\ UNCHANGED <<selVars, runVars>>

\* a mutant: the exception is not caught in generate_route; it ends run and
\* main returns 1
PostUnexpectedPropagates ==
    /\ pc = "post"
    /\ total_requests' = total_requests + 1
    /\ Posted("unexpected")
    /\ pc' = "exit"
    /\ exit_code' = Some(1)
    /\ conn' = "closed"
    /\ UNCHANGED <<max_retries, routes_generated, routes_failed, failed_routes,
                   station_pairs, i, routes, attempt, result, sleeps, pre, calls,
                   results>>
    /\ UNCHANGED ddVars
    /\ UNCHANGED selVars
    /\ UNCHANGED <<args, config, stations_table, run_log, global_routes,
                   per_station_routes, station_routes, files>>

\* lines 219-230: any other exception raised in the try block
PostUnexpected ==
    /\ pc = "post"
    /\ total_requests' = total_requests + 1
    /\ Posted("unexpected")
    /\ failed_routes' = Append(failed_routes,
           FailureEntry(CurFrom, CurTo, "unexpected", ErrorType("unexpected")))
    /\ routes_failed' = routes_failed + 1
    /\ Return(None)
    /\ sleeps' = sleeps
    /\ UNCHANGED <<max_retries, routes_generated, station_pairs, i,
                   routes, pre, calls>>
    /\ UNCHANGED ddVars
    /\ UNCHANGED <<selVars, runVars>>

\* a mutant: the batch stops at the first pair that fails
CollectRouteAbortOnFailure ==
    /\ pc = "returned"
    /\ routes' = IF result # None THEN Append(routes, result[1]) ELSE routes
    /\ i' = i + 1
    /\ pc' = IF result = None THEN "done" ELSE "batch"
    /\ UNCHANGED <<max_retries, routes_generated, routes_failed, total_requests,
                   failed_routes, station_pairs, attempt, result, posts, sleeps,
                   last_outcome, only_transient, pre, calls, results>>
    /\ UNCHANGED ddVars
    /\ UNCHANGED <<selVars, runVars>>

\* lines 252-255: generate_batch takes what generate_route returned
CollectRoute ==
    /\ pc = "returned"
    /\ routes' = IF result # None THEN Append(routes, result[1]) ELSE routes
    /\ i' = i + 1
    /\ pc' = "batch"
    /\ UNCHANGED <<max_retries, routes_generated, routes_failed, total_requests,
                   failed_routes, station_pairs, attempt, result, posts, sleeps,
                   last_outcome, only_transient, pre, calls, results>>
    /\ UNCHANGED ddVars
    /\ UNCHANGED <<selVars, runVars>>

\* lines 251, 267-275: the loop of generate_batch ends, routes is returned
BatchReturn ==
    /\ pc = "batch"
    /\ i = Len(station_pairs)
    /\ pc' = "done"
    /\ UNCHANGED genVars
    /\ UNCHANGED ddVars
    /\ UNCHANGED <<selVars, runVars>>

\* RouteGenerator.__init__ (lines 33-37) and the entry of generate_batch
\* (lines 248-249)
GeneratorFresh ==
    /\ routes_generated = 0
    /\ routes_failed = 0
    /\ total_requests = 0
    /\ failed_routes = <<>>
    /\ i = 0
    /\ routes = <<>>
    /\ attempt = 1
    /\ result = None
    /\ posts = 0
    /\ sleeps = 0
    /\ last_outcome = "none"
    /\ only_transient = TRUE
    /\ pre = [routes_generated |-> 0, routes_failed |-> 0, total_requests |-> 0,
              ledger |-> 0]
    /\ calls = <<>>
    /\ results = <<>>

DedupIdle ==
    /\ dd_routes = <<>>
    /\ dd_idx = 0
    /\ seen_keys = <<>>
    /\ unique_routes = <<>>
    /\ reverse_map = <<>>
    /\ station_coords = {}

\* no selection function has been called, on an empty trips table
SelectIdle ==
    /\ trips = <<>>
    /\ sel_arg = 0
    /\ selected = <<>>

\* no pipeline is running: RoutePipeline.__init__ (generate_routes.py:84-86),
\* RouteAnalyzer.__init__ (conn is None), nothing written
RunIdle ==
    /\ args = <<>>
    /\ config = None
    /\ exit_code = None
    /\ conn = "none"
    /\ stations_table = {}
    /\ run_log = <<>>
    /\ global_routes = <<>>
    /\ per_station_routes = <<>>
    /\ station_routes = <<>>
    /\ files = <<>>

\* a RouteGenerator with some max_retries, given some batch
InitGen ==
    /\ max_retries \in 0..MaxRetries
    /\ station_pairs \in SeqsUpTo(BatchPairs, MaxBatch)
    /\ pc = "batch"
    /\ GeneratorFresh
    /\ DedupIdle
    /\ SelectIdle
    /\ RunIdle

NextGen ==
    \/ CallGenerateRoute
    \/ PostOk
    \/ PostNoLegs
    \/ PostHttp400
    \/ PostHttpError
    \/ PostRequestException
    \/ PostUnexpected
    \/ CollectRoute
    \/ BatchReturn

SpecGen == InitGen /\ [][NextGen]_vars

-----------------------------------------------------------------------------
(* RouteAnalyzer.deduplicate_bidirectional (route_analyzer.py) and         *)
(* RoutePipeline._generate_geometries (generate_routes.py)                 *)

\* trip counts of the statistics rows (those of the scenario of the tests)
TripCounts == {100, 80}

\* RouteStatistics rows; the averages, which neither the deduplication nor
\* the generation reads, are left out
StatRecords ==
    [departure_station_id : Stations, return_station_id : Stations,
     trip_count : TripCounts] \ {r \in
        [departure_station_id : Stations, return_station_id : Stations,
         trip_count : TripCounts] : r.departure_station_id = r.return_station_id}

\* d[k] = v on a dict
DictSet(d, k, v) == [x \in (DOMAIN d) \cup {k} |-> IF x = k THEN v ELSE d[x]]

\* the route the loop of deduplicate_bidirectional is at
CurRoute == dd_routes[dd_idx + 1]

\* a mutant: the representative is stored in the canonical (sorted) direction
DedupFirstSeenCanonical ==
    /\ pc = "dedup"
    /\ dd_idx < Len(dd_routes)
    /\ StatKey(CurRoute) \notin DOMAIN seen_keys
    /\ LET s == Sorted2(CurRoute.departure_station_id, CurRoute.return_station_id)
           canon == [CurRoute EXCEPT !.departure_station_id = s[1],
                                     !.return_station_id = s[2]]
       IN  /\ seen_keys' = DictSet(seen_keys, StatKey(CurRoute), canon)
           /\ unique_routes' = Append(unique_routes, canon)
    /\ dd_idx' = dd_idx + 1
    /\ UNCHANGED <<dd_routes, reverse_map, station_coords, pc>>
    /\ UNCHANGED genVars
    /\ UNCHANGED <<selVars, runVars>>

\* lines 379-385: the key was not seen before
DedupFirstSeen ==
    /\ pc = "dedup"
    /\ dd_idx < Len(dd_routes)
    /\ StatKey(CurRoute) \notin DOMAIN seen_keys
    /\ seen_keys' = DictSet(seen_keys, StatKey(CurRoute), CurRoute)
    /\ unique_routes' = Append(unique_routes, CurRoute)
    /\ dd_idx' = dd_idx + 1
    /\ UNCHANGED <<dd_routes, reverse_map, station_coords, pc>>
    /\ UNCHANGED genVars
    /\ UNCHANGED <<selVars, runVars>>

\* a mutant: the reverse record, once stored, is kept
DedupSeenAgainKeepFirst ==
    /\ pc = "dedup"
    /\ dd_idx < Len(dd_routes)
    /\ StatKey(CurRoute) \in DOMAIN seen_keys
    /\ reverse_map' = IF StatKey(CurRoute) \in DOMAIN reverse_map
                         THEN reverse_map
                         ELSE DictSet(reverse_map, StatKey(CurRoute), CurRoute)
    /\ dd_idx' = dd_idx + 1
    /\ UNCHANGED <<dd_routes, seen_keys, unique_routes, station_coords, pc>>
    /\ UNCHANGED genVars
    /\ UNCHANGED <<selVars, runVars>>

\* lines 379-381, 386-389: the key was seen before
DedupSeenAgain ==
    /\ pc = "dedup"
    /\ dd_idx < Len(dd_routes)
    /\ StatKey(CurRoute) \in DOMAIN seen_keys
    /\ reverse_map' = DictSet(reverse_map, StatKey(CurRoute), CurRoute)
    /\ dd_idx' = dd_idx + 1
    /\ UNCHANGED <<dd_routes, seen_keys, unique_routes, station_coords, pc>>
    /\ UNCHANGED genVars
    /\ UNCHANGED <<selVars, runVars>>

\* lines 391-396: the loop is over, (unique_routes, reverse_map) is returned
DedupReturn ==
    /\ pc = "dedup"
    /\ dd_idx = Len(dd_routes)
    /\ pc' = "deduped"
    /\ UNCHANGED ddVars
    /\ UNCHANGED genVars
    /\ UNCHANGED <<selVars, runVars>>

\* a mutant: no route is skipped
PairsIgnoringCoords(rs) ==
    [j \in 1..Len(rs) |->
        <<rs[j].departure_station_id, rs[j].return_station_id>>]

\* generate_routes.py:352-370: the station pairs of the routes whose two
\* stations have coordinates, in the order of the routes
RECURSIVE PairsWithCoords(_)
PairsWithCoords(rs) ==
    IF rs = <<>> THEN <<>>
    ELSE LET r == Head(rs)
         IN  (IF \/ r.departure_station_id \notin station_coords
                 \/ r.return_station_id \notin station_coords
                 THEN <<>>
                 ELSE << <<r.departure_station_id, r.return_station_id>> >>)
             \o PairsWithCoords(Tail(rs))

\* _generate_geometries(routes_to_generate, station_coords) up to its call of
\* generate_batch(station_pairs) (generate_routes.py:352-376)
GenerateGeometries ==
    /\ pc = "deduped"
    /\ station_pairs' = PairsWithCoords(unique_routes)
    /\ pc' = "batch"
    /\ UNCHANGED <<max_retries, routes_generated, routes_failed, total_requests,
                   failed_routes, i, routes, attempt, result, posts, sleeps,
                   last_outcome, only_transient, pre, calls, results>>
    /\ UNCHANGED ddVars
    /\ UNCHANGED <<selVars, runVars>>

\* the sets of stations whose coordinates the database returns: all of them,
\* or all but one
CoordChoices == {Stations} \cup {Stations \ {s} : s \in Stations}

\* deduplicate_bidirectional called on some list of statistics rows
InitDedup ==
    /\ dd_routes \in SeqsUpTo(StatRecords, MaxLen)
    /\ station_coords \in CoordChoices
    /\ dd_idx = 0
    /\ seen_keys = <<>>
    /\ unique_routes = <<>>
    /\ reverse_map = <<>>
    /\ pc = "dedup"
    /\ max_retries = 3
    /\ station_pairs = <<>>
    /\ GeneratorFresh
    /\ SelectIdle
    /\ RunIdle

NextDedup ==
    \/ DedupFirstSeen
    \/ DedupSeenAgain
    \/ DedupReturn
    \/ GenerateGeometries

SpecDedup == InitDedup /\ [][NextDedup]_vars

-----------------------------------------------------------------------------
(* The selection functions of RouteAnalyzer (route_analyzer.py)            *)

\* largest n handed to the top-N functions
MaxN == 3

\* the (departure, return) pairs that have rows in the trips table: three
\* destinations from "030", one way back, and round trips at "030"
TripPairs ==
    {<<"030", "045">>, <<"030", "067">>, <<"030", "094">>, <<"067", "030">>,
     <<"030", "030">>}

\* how many trips a pair has (0: none)
TripCountChoices == {0, 5, 11, 14, 15, 30, 50}

RoundTripChoices == {0, 30}

TripTables ==
    {t \in [TripPairs -> TripCountChoices] :
        t[<<"030", "030">>] \in RoundTripChoices}

\* the values of coverage_pct
Percentages == {50, 56, 70, 80, 100}

\* The (total_trips, coverage_pct), within the tables and percentages above,
\* for which the double total_trips * (coverage_pct / 100.0) is greater than
\* the exact product: 25 * (56 / 100.0) is 14.000000000000002.
FloatProductAbove ==
    {<<25, 56>>, <<50, 56>>, <<75, 56>>, <<100, 56>>, <<150, 56>>, <<175, 56>>,
     <<200, 56>>}

\* The (cumulative_trips, total_trips, coverage_pct), within the same domain,
\* for which the double cumulative_trips / total_trips * 100 is greater than
\* the exact quotient: 14 / 25 * 100 is 56.00000000000001.
FloatQuotientAbove ==
    {<<14, 25, 56>>, <<28, 50, 56>>, <<42, 75, 56>>, <<56, 100, 56>>,
     <<70, 125, 56>>, <<84, 150, 56>>, <<98, 175, 56>>, <<112, 200, 56>>}

\* the rows of the query of get_route_statistics (lines 56-67): one per pair
\* of different stations that has trips, at least min_trips of them
RouteStatisticsRows(min_trips) ==
    {[departure_station_id |-> p[1], return_station_id |-> p[2],
      trip_count |-> trips[p]] :
        p \in {q \in DOMAIN trips :
                 q[1] # q[2] /\ trips[q] >= 1 /\ trips[q] >= min_trips}}

\* ORDER BY trip_count DESC on the rows S: the database returns rows of equal
\* count in any order
DescOrders(S) ==
    {f \in [1..Cardinality(S) -> S] :
        /\ \A a, b \in 1..Cardinality(S) : a # b => f[a] # f[b]
        /\ \A j \in 1..(Cardinality(S) - 1) :
              f[j].trip_count >= f[j + 1].trip_count}

\* what get_route_statistics(min_trips) can return
GetRouteStatistics(min_trips) == DescOrders(RouteStatisticsRows(min_trips))

\* a mutant: the slice keeps one element more
PrefixOneMore(rs, n) ==
    SubSeq(rs, 1, IF n + 1 <= Len(rs) THEN n + 1 ELSE Len(rs))

\* rs[:n] on a list
Prefix(rs, n) ==
    SubSeq(rs, 1, IF n >= 0
                     THEN (IF n <= Len(rs) THEN n ELSE Len(rs))
                     ELSE (IF Len(rs) + n >= 0 THEN Len(rs) + n ELSE 0))

\* what get_top_n_routes(n) can return
TopNRoutes(n) == {Prefix(rs, n) : rs \in GetRouteStatistics(1)}

\* the stations that have a row in the per-station queries
DepartureStations ==
    {r.departure_station_id : r \in RouteStatisticsRows(1)}

\* the rows of one partition (PARTITION BY departure_station_id)
StationRows(s) == {r \in RouteStatisticsRows(1) : r.departure_station_id = s}

\* WHERE rank <= n (line 160)
RankAtMost(k, n) == k <= n

\* the rows of station s that get_routes_by_station_top_n(n) can list: those
\* of rank <= n in the order of the window, in an order of the final ORDER BY
StationTopNRows(s, n) ==
    UNION {DescOrders({rs[k] : k \in {j \in 1..Len(rs) : RankAtMost(j, n)}}) :
              rs \in DescOrders(StationRows(s))}

\* what get_routes_by_station_top_n(n) can return: a dict that has a key for
\* every station with a selected row
StationTopN(n) ==
    LET keys == {s \in DepartureStations : RankAtMost(1, n)}
    IN  {d \in [keys -> UNION {StationTopNRows(s, n) : s \in keys}] :
            \A s \in keys : d[s] \in StationTopNRows(s, n)}

\* sum(r.trip_count for r in rs)
RECURSIVE SumTrips(_)
SumTrips(rs) ==
    IF rs = <<>> THEN 0 ELSE Head(rs).trip_count + SumTrips(Tail(rs))

\* the trips of the first j routes of rs
Cumulative(rs, j) == SumTrips(SubSeq(rs, 1, j))

\* a mutant: the target is the share of the trips that is left uncovered
ReachesTargetUncovered(cumulative_trips, total_trips, coverage_pct) ==
    cumulative_trips * 100 >= total_trips * (100 - coverage_pct)

\* cumulative_trips >= target_trips (line 340), where target_trips is the
\* double total_trips * (coverage_pct / 100.0) (line 329)
ReachesTarget(cumulative_trips, total_trips, coverage_pct) ==
    IF <<total_trips, coverage_pct>> \in FloatProductAbove
       THEN cumulative_trips * 100 > total_trips * coverage_pct
       ELSE cumulative_trips * 100 >= total_trips * coverage_pct

\* lines 328-348 on all_routes = rs; sorted() is stable, so it leaves a list
\* that is already in descending order as it is
GlobalCoverageOf(rs, coverage_pct) ==
    LET hits == {j \in 1..Len(rs) :
                    ReachesTarget(Cumulative(rs, j), SumTrips(rs), coverage_pct)}
    IN  IF hits = {}
           THEN rs
           ELSE SubSeq(rs, 1, CHOOSE j \in hits : \A k \in hits : j <= k)

\* what get_global_coverage_routes(coverage_pct) can return
GlobalCoverageRoutes(coverage_pct) ==
    {GlobalCoverageOf(rs, coverage_pct) : rs \in GetRouteStatistics(1)}

\* (cumulative_trips::float / total_trips * 100) <= coverage_pct (line 273)
PctAtMost(cumulative_trips, total_trips, coverage_pct) ==
    IF <<cumulative_trips, total_trips, coverage_pct>> \in FloatQuotientAbove
       THEN FALSE
       ELSE cumulative_trips * 100 <= total_trips * coverage_pct

\* a mutant: the first route of a station has to pass the percentage as well
KeptByCoverageNoRankOne(rs, k, coverage_pct) ==
    PctAtMost(Cumulative(rs, k), SumTrips(rs), coverage_pct)

\* the WHERE clause of lines 273-274 on row k of the partition rs
KeptByCoverage(rs, k, coverage_pct) ==
    \/ PctAtMost(Cumulative(rs, k), SumTrips(rs), coverage_pct)
    \/ k = 1

\* the rows of station s that get_routes_by_station_coverage can list
StationCoverageRows(s, coverage_pct) ==
    UNION {DescOrders({rs[k] : k \in {j \in 1..Len(rs) :
                                         KeptByCoverage(rs, j, coverage_pct)}}) :
              rs \in DescOrders(StationRows(s))}

\* what get_routes_by_station_coverage(coverage_pct) can return
StationCoverage(coverage_pct) ==
    LET keys == {s \in DepartureStations :
                    StationCoverageRows(s, coverage_pct) # {<<>>}}
    IN  {d \in [keys -> UNION {StationCoverageRows(s, coverage_pct) : s \in keys}] :
            \A s \in keys : d[s] \in StationCoverageRows(s, coverage_pct)}

\* get_top_n_routes(n) is called (lines 93-104)
GetTopNRoutes ==
    /\ pc = "analyzer"
    /\ \E n \in 1..MaxN :
          /\ sel_arg' = n
          /\ selected' \in TopNRoutes(n)
    /\ pc' = "top_n"
    /\ UNCHANGED trips
    /\ UNCHANGED <<genVars, ddVars, runVars>>

\* get_routes_by_station_top_n(n) is called (lines 115-197)
GetRoutesByStationTopN ==
    /\ pc = "analyzer"
    /\ \E n \in 1..MaxN :
          /\ sel_arg' = n
          /\ selected' \in StationTopN(n)
    /\ pc' = "station_top_n"
    /\ UNCHANGED trips
    /\ UNCHANGED <<genVars, ddVars, runVars>>

\* get_global_coverage_routes(coverage_pct) is called (lines 313-348)
GetGlobalCoverageRoutes ==
    /\ pc = "analyzer"
    /\ \E pct \in Percentages :
          /\ sel_arg' = pct
          /\ selected' \in GlobalCoverageRoutes(pct)
    /\ pc' = "global_coverage"
    /\ UNCHANGED trips
    /\ UNCHANGED <<genVars, ddVars, runVars>>

\* get_routes_by_station_coverage(coverage_pct) is called (lines 199-311)
GetRoutesByStationCoverage ==
    /\ pc = "analyzer"
    /\ \E pct \in Percentages :
          /\ sel_arg' = pct
          /\ selected' \in StationCoverage(pct)
    /\ pc' = "station_coverage"
    /\ UNCHANGED trips
    /\ UNCHANGED <<genVars, ddVars, runVars>>

\* a connected RouteAnalyzer over some trips table
InitSelect ==
    /\ trips \in TripTables
    /\ sel_arg = 0
    /\ selected = <<>>
    /\ pc = "analyzer"
    /\ max_retries = 3
    /\ station_pairs = <<>>
    /\ GeneratorFresh
    /\ DedupIdle
    /\ RunIdle

NextSelect ==
    \/ GetTopNRoutes
    \/ GetRoutesByStationTopN
    \/ GetGlobalCoverageRoutes
    \/ GetRoutesByStationCoverage

SpecSelect == InitSelect /\ [][NextSelect]_vars

-----------------------------------------------------------------------------
(* main and build_config_from_args (generate_routes.py), the strategies of *)
(* config.py                                                               *)

\* bool(x) of an optional number of the command line: None and 0 are false
Truthy(x) == x # None /\ x[1] # 0

\* the two ways a call that validates ends: it raises ValueError, or it
\* returns v
Raised == [raised |-> TRUE, value |-> None]

Returned(v) == [raised |-> FALSE, value |-> v]

\* a RouteSelectionStrategy (config.py:50-52)
TopNStrategy(n) ==
    [selection_type |-> "top_n", top_n |-> Some(n), coverage_percentage |-> None]

PercentageStrategy(pct) ==
    [selection_type |-> "percentage", top_n |-> None,
     coverage_percentage |-> Some(pct)]

\* a mutant: create_top_n without its check
CreateTopNUnchecked(n) == Returned(TopNStrategy(n))

\* RouteSelectionStrategy.create_top_n (config.py:54-66)
CreateTopN(n) == IF n < 1 THEN Raised ELSE Returned(TopNStrategy(n))

\* RouteSelectionStrategy.create_percentage (config.py:68-82)
CreatePercentage(pct) ==
    IF ~(0 < pct /\ pct <= 100) THEN Raised ELSE Returned(PercentageStrategy(pct))

\* "x_strategy = <a factory call>": the strategy as an Optional, unless the
\* factory raised
Assigned(r) == IF r.raised THEN Raised ELSE Returned(Some(r.value))

\* generate_routes.py:532-543 (5 is the default top-N)
GlobalStrategyOf(a) ==
    IF a.no_global THEN Returned(None)
    ELSE IF Truthy(a.global_top) THEN Assigned(CreateTopN(a.global_top[1]))
    ELSE IF Truthy(a.global_pct) THEN Assigned(CreatePercentage(a.global_pct[1]))
    ELSE Assigned(CreateTopN(5))

\* generate_routes.py:545-558 (80 is the default coverage)
IndividualStrategyOf(a) ==
    IF a.no_individual THEN Returned(None)
    ELSE IF Truthy(a.individual_top)
            THEN Assigned(CreateTopN(a.individual_top[1]))
    ELSE IF Truthy(a.individual_pct)
            THEN Assigned(CreatePercentage(a.individual_pct[1]))
    ELSE Assigned(CreatePercentage(80))

\* generate_routes.py:560-571 (no default)
AggregateStrategyOf(a) ==
    IF a.no_aggregate THEN Returned(None)
    ELSE IF Truthy(a.aggregate_top)
            THEN Assigned(CreateTopN(a.aggregate_top[1]))
    ELSE IF Truthy(a.aggregate_pct)
            THEN Assigned(CreatePercentage(a.aggregate_pct[1]))
    ELSE Returned(None)

\* the checks of lines 490-511: both options of one scope were given
BothGiven(a) ==
    \/ Truthy(a.global_top) /\ Truthy(a.global_pct)
    \/ Truthy(a.individual_top) /\ Truthy(a.individual_pct)
    \/ Truthy(a.aggregate_top) /\ Truthy(a.aggregate_pct)

\* RouteGenerationConfig.__post_init__ raises (config.py:124-145; batch_size
\* keeps its default)
PostInitRaises(cfg) ==
    \/ /\ cfg.global_strategy = None
       /\ cfg.individual_strategy = None
       /\ cfg.per_station_aggregate_strategy = None
    \/ cfg.min_trips_threshold < 1

\* a mutant: the configuration is built without the checks that a scope is
\* enabled
BuildConfigFromArgsAnyScopes(a) ==
    IF \/ BothGiven(a)
       \/ GlobalStrategyOf(a).raised
       \/ IndividualStrategyOf(a).raised
       \/ AggregateStrategyOf(a).raised
       \/ a.min_trips < 1
       THEN Raised
       ELSE Returned(Some(
              [global_strategy |-> GlobalStrategyOf(a).value,
               individual_strategy |-> IndividualStrategyOf(a).value,
               per_station_aggregate_strategy |-> AggregateStrategyOf(a).value,
               min_trips_threshold |-> a.min_trips]))

\* build_config_from_args(args) (generate_routes.py:476-598), for a command
\* line without the deprecated --phase
BuildConfigFromArgs(a) ==
    LET cfg == [global_strategy |-> GlobalStrategyOf(a).value,
                individual_strategy |-> IndividualStrategyOf(a).value,
                per_station_aggregate_strategy |-> AggregateStrategyOf(a).value,
                min_trips_threshold |-> a.min_trips]
    IN  IF BothGiven(a) THEN Raised
        ELSE IF \/ GlobalStrategyOf(a).raised
                \/ IndividualStrategyOf(a).raised
                \/ AggregateStrategyOf(a).raised
                THEN Raised
        ELSE IF /\ cfg.global_strategy = None
                /\ cfg.individual_strategy = None
                /\ cfg.per_station_aggregate_strategy = None
                THEN Raised
        ELSE IF PostInitRaises(cfg) THEN Raised
        ELSE Returned(Some(cfg))

\* the options of one scope on the command line: --no-x, --x-top, --x-pct
ScopeArgs(no, top, pct) == [no |-> no, top |-> top, pct |-> pct]

GlobalArgChoices ==
    {ScopeArgs(TRUE, None, None), ScopeArgs(FALSE, None, None),
     ScopeArgs(FALSE, Some(1), None), ScopeArgs(FALSE, Some(0), None),
     ScopeArgs(FALSE, Some(-1), None), ScopeArgs(FALSE, None, Some(80)),
     ScopeArgs(FALSE, None, Some(150))}

IndividualArgChoices ==
    {ScopeArgs(TRUE, None, None), ScopeArgs(FALSE, None, None),
     ScopeArgs(FALSE, Some(1), None), ScopeArgs(FALSE, None, Some(50)),
     ScopeArgs(FALSE, None, Some(-5))}

AggregateArgChoices ==
    {ScopeArgs(TRUE, None, None), ScopeArgs(FALSE, None, None),
     ScopeArgs(FALSE, Some(1), None)}

\* --min-trips: an invalid value, the default, and a threshold between the
\* trip counts of the tables
MinTripsChoices == {0, 1, 90}

\* the command lines of the model: every combination of the options above
\* with --min-trips 0 or 1, and --min-trips 90 with the default or a
\* percentage strategy and no aggregate option
ArgChoices ==
    {c \in {[no_global |-> g.no, global_top |-> g.top, global_pct |-> g.pct,
             no_individual |-> n.no, individual_top |-> n.top,
             individual_pct |-> n.pct,
             no_aggregate |-> a.no, aggregate_top |-> a.top,
             aggregate_pct |-> a.pct,
             min_trips |-> m] :
               g \in GlobalArgChoices, n \in IndividualArgChoices,
               a \in AggregateArgChoices, m \in MinTripsChoices} :
        c.min_trips = 90 =>
            /\ c.global_top = None
            /\ c.individual_top = None
            /\ ~c.no_aggregate
            /\ c.aggregate_top = None}

\* the PipelineConfig.generation of the run
Cfg == config[1]

\* main builds the configuration (lines 734-739): a ValueError ends main with
\* exit code 1 (lines 748-751), otherwise the pipeline is constructed and run
BuildConfig ==
    /\ pc = "main"
    /\ run_log' = Append(run_log, "build_config")
    /\ IF BuildConfigFromArgs(args).raised
          THEN /\ config' = config
               /\ exit_code' = Some(1)
               /\ pc' = "exit"
          ELSE /\ config' = BuildConfigFromArgs(args).value
               /\ exit_code' = exit_code
               /\ pc' = "connect"
    /\ UNCHANGED <<args, conn, stations_table, global_routes,
                   per_station_routes, station_routes, files>>
    /\ UNCHANGED <<genVars, ddVars, selVars>>

-----------------------------------------------------------------------------
(* RoutePipeline.run (generate_routes.py) and RouteFileWriter              *)
(* (file_writer.py)                                                        *)

\* Step 1 (lines 110-116): connect() succeeds; the summary is read and logged
ConnectOk ==
    /\ pc = "connect"
    /\ run_log' = Append(run_log, "connect")
    /\ conn' = "open"
    /\ pc' = "status"
    /\ UNCHANGED <<args, config, exit_code, stations_table, global_routes,
                   per_station_routes, station_routes, files>>
    /\ UNCHANGED <<genVars, ddVars, selVars>>

\* Step 1: connect() raises psycopg2.Error (route_analyzer.py:28-35); run logs
\* and re-raises (lines 161-163), there is no connection to close (line 167)
\* and main returns 1 (lines 753-755)
ConnectFail ==
    /\ pc = "connect"
    /\ run_log' = Append(run_log, "connect_failed")
    /\ exit_code' = Some(1)
    /\ pc' = "exit"
    /\ UNCHANGED <<args, config, conn, stations_table, global_routes,
                   per_station_routes, station_routes, files>>
    /\ UNCHANGED <<genVars, ddVars, selVars>>

\* Step 2 (lines 118-121): test_connection() returns True
\* (route_generator.py:46-53)
TestConnectionOk ==
    /\ pc = "status"
    /\ run_log' = Append(run_log, "test_connection")
    /\ pc' = "select"
    /\ UNCHANGED <<args, config, exit_code, conn, stations_table, global_routes,
                   per_station_routes, station_routes, files>>
    /\ UNCHANGED <<genVars, ddVars, selVars>>

\* a mutant: the result of test_connection() is not looked at
TestConnectionFailIgnored ==
    /\ pc = "status"
    /\ run_log' = Append(run_log, "test_connection_failed")
    /\ pc' = "select"
    /\ UNCHANGED <<args, config, exit_code, conn, stations_table, global_routes,
                   per_station_routes, station_routes, files>>
    /\ UNCHANGED <<genVars, ddVars, selVars>>

\* Step 2: the GET of the status endpoint raises a RequestException,
\* test_connection() returns False (route_generator.py:55-57) and run raises
\* RuntimeError (line 121); the connection is closed (lines 165-168) and main
\* returns 1 (lines 753-755)
TestConnectionFail ==
    /\ pc = "status"
    /\ run_log' = Append(run_log, "test_connection_failed")
    /\ conn' = "closed"
    /\ exit_code' = Some(1)
    /\ pc' = "exit"
    /\ UNCHANGED <<args, config, stations_table, global_routes,
                   per_station_routes, station_routes, files>>
    /\ UNCHANGED <<genVars, ddVars, selVars>>

\* _get_routes_for_strategy (lines 247-279)
RoutesForStrategy(strategy) ==
    IF strategy.selection_type = "top_n"
       THEN TopNRoutes(strategy.top_n[1])
       ELSE GlobalCoverageRoutes(strategy.coverage_percentage[1])

\* _get_routes_per_station (lines 281-312)
RoutesPerStation(strategy) ==
    IF strategy.selection_type = "top_n"
       THEN StationTopN(strategy.top_n[1])
       ELSE StationCoverage(strategy.coverage_percentage[1])

\* "if key not in all_routes_dict: all_routes_dict[key] = route" for the
\* routes rs, on the values acc of the dict in insertion order (lines 222-225)
RECURSIVE AddMissing(_, _)
AddMissing(acc, rs) ==
    IF rs = <<>> THEN acc
    ELSE AddMissing(
           IF \E j \in 1..Len(acc) :
                 /\ acc[j].departure_station_id = Head(rs).departure_station_id
                 /\ acc[j].return_station_id = Head(rs).return_station_id
              THEN acc ELSE Append(acc, Head(rs)),
           Tail(rs))

\* the ids the stations of the trips table can have, in the order of
\* "ORDER BY departure_station_id", which is the order of the keys of the
\* per-station dicts
StationOrder == IdOrder \o <<"094">>

\* lines 221-225: the per-station routes are added station by station, from
\* the k-th station on
RECURSIVE AddPerStation(_, _, _)
AddPerStation(acc, per_station, k) ==
    IF k > Len(StationOrder) THEN acc
    ELSE AddPerStation(
           IF StationOrder[k] \in DOMAIN per_station
              THEN AddMissing(acc, per_station[StationOrder[k]]) ELSE acc,
           per_station, k + 1)

\* Step 3 (lines 123-126), _select_routes up to its call of
\* deduplicate_bidirectional (lines 184-238); the aggregate strategy is not
\* read
SelectRoutes ==
    /\ pc = "select"
    /\ run_log' = Append(run_log, "select")
    /\ \E g \in (IF Cfg.global_strategy # None
                    THEN RoutesForStrategy(Cfg.global_strategy[1])
                    ELSE {<<>>}),
          ps \in (IF Cfg.individual_strategy # None
                     THEN RoutesPerStation(Cfg.individual_strategy[1])
                     ELSE {<<>>}) :
          /\ global_routes' = g
          /\ per_station_routes' = ps
          /\ dd_routes' = AddPerStation(g, ps, 1)
    /\ pc' = "dedup"
    /\ UNCHANGED <<dd_idx, seen_keys, unique_routes, reverse_map,
                   station_coords>>
    /\ UNCHANGED <<args, config, exit_code, conn, stations_table,
                   station_routes, files>>
    /\ UNCHANGED <<genVars, selVars>>

\* Step 4 (lines 128-131), _fetch_station_coordinates (lines 314-334) and
\* get_station_coordinates (route_analyzer.py:398-449): the stations of the
\* routes that have a row in the stations table
FetchStationCoordinates ==
    /\ pc = "deduped"
    /\ run_log[Len(run_log)] = "select"
    /\ run_log' = Append(run_log, "fetch_coordinates")
    /\ station_coords' =
          {s \in stations_table :
              \E j \in 1..Len(unique_routes) :
                  \/ unique_routes[j].departure_station_id = s
                  \/ unique_routes[j].return_station_id = s}
    /\ UNCHANGED <<dd_routes, dd_idx, seen_keys, unique_routes, reverse_map>>
    /\ UNCHANGED <<args, config, exit_code, conn, stations_table, global_routes,
                   per_station_routes, station_routes, files>>
    /\ UNCHANGED <<genVars, selVars, pc>>

\* Step 5 (lines 133-138): _generate_geometries is given the coordinates of
\* Step 4
RunGenerateGeometries ==
    /\ GenerateGeometries
    /\ run_log[Len(run_log)] = "fetch_coordinates"

\* d[k].append(v) on a defaultdict(list)
DictAppend(d, k, v) ==
    DictSet(d, k, IF k \in DOMAIN d THEN Append(d[k], v) ELSE <<v>>)

\* the RouteGeometry of lines 313-320 of file_writer.py
ReverseRoute(route, reverse_route_stats) ==
    [route EXCEPT
        !.departure_station_id = reverse_route_stats.departure_station_id,
        !.return_station_id = reverse_route_stats.return_station_id]

\* a mutant: every route gets a reverse entry, under its return station
OrganizeRouteBothWays(acc, route, bidirectional_map) ==
    DictAppend(DictAppend(acc, route.departure_station_id, route),
               route.return_station_id,
               [route EXCEPT
                   !.departure_station_id = route.return_station_id,
                   !.return_station_id = route.departure_station_id])

\* the body of the loop of organize_by_station (file_writer.py:304-322) on
\* the dict acc
OrganizeRoute(acc, route, bidirectional_map) ==
    IF route.route_key \in DOMAIN bidirectional_map
       THEN DictAppend(DictAppend(acc, route.departure_station_id, route),
                       bidirectional_map[route.route_key].departure_station_id,
                       ReverseRoute(route, bidirectional_map[route.route_key]))
       ELSE DictAppend(acc, route.departure_station_id, route)

RECURSIVE OrganizeFrom(_, _, _)
OrganizeFrom(acc, rs, bidirectional_map) ==
    IF rs = <<>> THEN acc
    ELSE OrganizeFrom(OrganizeRoute(acc, Head(rs), bidirectional_map),
                      Tail(rs), bidirectional_map)

\* RouteFileWriter.organize_by_station (file_writer.py:285-329)
OrganizeByStationOf(rs, bidirectional_map) ==
    OrganizeFrom(<<>>, rs, bidirectional_map)

\* Step 6 (lines 140-144)
OrganizeByStation ==
    /\ pc = "done"
    /\ run_log' = Append(run_log, "organize")
    /\ station_routes' = OrganizeByStationOf(routes, reverse_map)
    /\ pc' = "organized"
    /\ UNCHANGED <<args, config, exit_code, conn, stations_table, global_routes,
                   per_station_routes, files>>
    /\ UNCHANGED <<genVars, ddVars, selVars>>

\* is_reverse of file_writer.py:227-229: the departure is not the smaller id
IsReverse(route) ==
    route.departure_station_id
        # Sorted2(route.departure_station_id, route.return_station_id)[1]

\* an entry of a station file (file_writer.py:231-238)
StationEntry(route) ==
    [to |-> route.return_station_id,
     polyline |-> route.polyline,
     direction |-> IF IsReverse(route) THEN "reverse" ELSE "forward",
     bidirectional |-> TRUE,
     distance_km |-> route.distance_km,
     duration_min |-> route.duration_minutes]

\* a mutant: the per-station filter is not applied
RoutesToWriteUnfiltered(station_id, all_routes, per_station_filter) == all_routes

\* the routes written for a station (file_writer.py:209-221)
RoutesToWrite(station_id, all_routes, per_station_filter) ==
    IF per_station_filter # <<>> /\ station_id \in DOMAIN per_station_filter
       THEN SelectSeq(all_routes,
                      LAMBDA r : r.route_key \in
                          {StatKey(per_station_filter[station_id][j]) :
                              j \in 1..Len(per_station_filter[station_id])})
       ELSE all_routes

\* the content of a station file (file_writer.py:223-245)
StationFile(station_id, all_routes, per_station_filter) ==
    [station_id |-> station_id,
     routes |-> [j \in 1..Len(RoutesToWrite(station_id, all_routes,
                                            per_station_filter)) |->
                    StationEntry(RoutesToWrite(station_id, all_routes,
                                               per_station_filter)[j])],
     count |-> Len(RoutesToWrite(station_id, all_routes, per_station_filter))]

\* OutputConfig.station_file_path (config.py:335-340)
StationFileName(station_id) == "s" \o station_id \o ".json.gz"

\* the file name of write_global_routes (file_writer.py:140-144)
GlobalFileName(strategy) ==
    IF strategy.selection_type = "top_n"
       THEN "top-" \o ToString(strategy.top_n[1]) \o ".json.gz"
       ELSE "top-" \o ToString(strategy.coverage_percentage[1]) \o "pct.json.gz"

\* the content of the global file (file_writer.py:149-171), for the generated
\* routes whose key is the key of a global route (lines 398-401)
GlobalFile(generated_routes, strategy) ==
    LET global_generated ==
            SelectSeq(generated_routes,
                      LAMBDA r : r.route_key \in
                          {StatKey(global_routes[j]) :
                              j \in 1..Len(global_routes)})
    IN  [generation_strategy |-> strategy,
         routes |-> [j \in 1..Len(global_generated) |->
                        [route_key |-> global_generated[j].route_key,
                         from |-> global_generated[j].departure_station_id,
                         to |-> global_generated[j].return_station_id,
                         polyline |-> global_generated[j].polyline,
                         distance_km |-> global_generated[j].distance_km,
                         duration_min |-> global_generated[j].duration_minutes,
                         bidirectional |-> TRUE]],
         count |-> Len(global_generated)]

\* get_statistics()["success_rate_pct"] (route_generator.py:284-294), in
\* hundredths of a percent: round(x, 2) of the quotient
SuccessRatePct ==
    IF total_requests > 0
       THEN (2 * routes_generated * 10000 + total_requests)
               \div (2 * total_requests)
       ELSE 0

\* the names of the files _write_output_files creates before the manifest
\* (lines 391-418)
CreatedFiles ==
    (IF Cfg.global_strategy # None
        THEN {GlobalFileName(Cfg.global_strategy[1])} ELSE {})
    \cup (IF Cfg.individual_strategy # None
             THEN {StationFileName(s) : s \in DOMAIN station_routes} ELSE {})

\* the manifest (file_writer.py:40-79, generate_routes.py:420-439)
Manifest ==
    [total_routes |-> Len(routes),
     unique_routes |-> Len(routes),
     stations_count |-> Cardinality(CreatedFiles),
     success_rate_pct |-> SuccessRatePct,
     station_files |-> CreatedFiles]

\* Step 7 (lines 146-148), _write_output_files (lines 378-439): the global
\* file and the station files, each if its scope is enabled, and the manifest
WriteOutputFiles ==
    /\ pc = "organized"
    /\ run_log' = Append(run_log, "write")
    /\ files' =
          [name \in CreatedFiles \cup {"manifest.json"} |->
              IF name = "manifest.json" THEN Manifest
              ELSE IF /\ Cfg.global_strategy # None
                      /\ name = GlobalFileName(Cfg.global_strategy[1])
                      THEN GlobalFile(routes, Cfg.global_strategy[1])
              ELSE LET s == CHOOSE t \in DOMAIN station_routes :
                                StationFileName(t) = name
                   IN  StationFile(s, station_routes[s], per_station_routes)]
    /\ pc' = "written"
    /\ UNCHANGED <<args, config, exit_code, conn, stations_table, global_routes,
                   per_station_routes, station_routes>>
    /\ UNCHANGED <<genVars, ddVars, selVars>>

\* Step 8 (lines 150-159), the connection is closed (lines 165-168) and main
\* returns 0 (line 742)
ReportStatistics ==
    /\ pc = "written"
    /\ run_log' = Append(run_log, "report")
    /\ conn' = "closed"
    /\ exit_code' = Some(0)
    /\ pc' = "exit"
    /\ UNCHANGED <<args, config, stations_table, global_routes,
                   per_station_routes, station_routes, files>>
    /\ UNCHANGED <<genVars, ddVars, selVars>>

\* the trips tables of a run: trips between "030" and "067" in both
\* directions and from "030" to "045"
RunTripTables ==
    {t \in [TripPairs -> TripCounts \cup {0}] :
        /\ t[<<"067", "030">>] \in {0, 100}
        /\ t[<<"030", "045">>] \in {0, 80}
        /\ t[<<"030", "094">>] = 0
        /\ t[<<"030", "030">>] = 0}

\* the stations that have a row in the stations table: all of them, or all
\* but "045"
RunStationTables == {Stations, Stations \ {"045"}}

\* main is started with some command line, over some database
InitRun ==
    /\ args \in ArgChoices
    /\ trips \in RunTripTables
    /\ stations_table \in RunStationTables
    /\ pc = "main"
    /\ max_retries = 3
    /\ station_pairs = <<>>
    /\ GeneratorFresh
    /\ DedupIdle
    /\ sel_arg = 0
    /\ selected = <<>>
    /\ config = None
    /\ exit_code = None
    /\ conn = "none"
    /\ run_log = <<>>
    /\ global_routes = <<>>
    /\ per_station_routes = <<>>
    /\ station_routes = <<>>
    /\ files = <<>>

NextRun ==
    \/ BuildConfig
    \/ ConnectOk
    \/ ConnectFail
    \/ TestConnectionOk
    \/ TestConnectionFail
    \/ SelectRoutes
    \/ DedupFirstSeen
    \/ DedupSeenAgain
    \/ DedupReturn
    \/ FetchStationCoordinates
    \/ RunGenerateGeometries
    \/ CallGenerateRoute
    \/ PostOk
    \/ PostNoLegs
    \/ PostHttp400
    \/ PostHttpError
    \/ PostRequestException
    \/ PostUnexpected
    \/ CollectRoute
    \/ BatchReturn
    \/ OrganizeByStation
    \/ WriteOutputFiles
    \/ ReportStatistics

SpecRun == InitRun /\ [][NextRun]_vars

\* run is one thread of control and every step of it ends (the requests have
\* a timeout, the delays are finite): a step that can be taken is taken
SpecRunFair == SpecRun /\ WF_vars(NextRun)

\* the process is interrupted while generate_batch runs (in a post, in a
\* delay or between two calls): KeyboardInterrupt is no Exception, so
\* neither generate_route (route_generator.py:165-230) nor run (line 161)
\* catches it; the frame of generate_batch and its list routes are gone, the
\* connection is closed (lines 165-168) and main returns 130 (lines 744-746)
Interrupt ==
    /\ pc \in {"batch", "post", "returned"}
    /\ run_log' = Append(run_log, "interrupted")
    /\ routes' = <<>>
    /\ conn' = "closed"
    /\ exit_code' = Some(130)
    /\ pc' = "exit"
    /\ UNCHANGED <<max_retries, routes_generated, routes_failed, total_requests,
                   failed_routes, station_pairs, i, attempt, result, posts,
                   sleeps, last_outcome, only_transient, pre, calls, results>>
    /\ UNCHANGED <<args, config, stations_table, global_routes,
                   per_station_routes, station_routes, files>>
    /\ UNCHANGED <<ddVars, selVars>>

NextRunInterrupt ==
    \/ NextRun
    \/ Interrupt

SpecRunInterrupt == InitRun /\ [][NextRunInterrupt]_vars

-----------------------------------------------------------------------------
(* Properties of RouteGenerator, checked under SpecGen *)

\* the pair of the call in progress (or of the call that just returned)
CallPair == calls[Len(calls)]

\* C1: when every attempt of a generate_route call fails with a transient
\* error (timeout, connection error, HTTP 5xx), the call makes exactly
\* max_retries posts, waits the delay after every post but the last
\* (max_retries - 1 times), returns None and adds exactly one to
\* routes_failed.  (max_retries >= 1: with 0 the call makes no attempt.)
C1_TransientExhaustsRetries ==
    /\ pc = "post" => sleeps = posts
    /\ (pc = "returned" /\ max_retries >= 1 /\ only_transient) =>
          /\ posts = max_retries
          /\ sleeps = max_retries - 1
          /\ result = None
          /\ routes_failed = pre.routes_failed + 1
          /\ routes_generated = pre.routes_generated

\* three transient failures with max_retries = 3: the call has returned
C1_Witness ==
    /\ pc = "returned"
    /\ max_retries = 3
    /\ only_transient
    /\ posts = 3
    /\ last_outcome = "timeout"

\* C2: an HTTP 400 answer ends the call at once, whichever attempt it
\* answers: no further post, no delay after it, None returned, routes_failed
\* one higher and one new ledger entry naming the pair.
C2_Http400NotRetried ==
    last_outcome = "http_400" =>
        /\ pc # "post"
        /\ pc = "returned" =>
              /\ result = None
              /\ sleeps = posts - 1
              /\ routes_failed = pre.routes_failed + 1
              /\ Len(failed_routes) = pre.ledger + 1
              /\ failed_routes[Len(failed_routes)].from = CallPair[1]
              /\ failed_routes[Len(failed_routes)].to = CallPair[2]
              /\ failed_routes[Len(failed_routes)].reason
                    = "Route not possible (HTTP 400)"

\* a 400 answering the second attempt of a call that may make three
C2_Witness ==
    /\ pc = "returned"
    /\ last_outcome = "http_400"
    /\ posts = 2
    /\ max_retries = 3

\* C3 (as claimed): the ledger has one entry per failed call.
C3_LedgerMatchesFailures == Len(failed_routes) = routes_failed

\* C4: a 200 answer without a leg ends the call at once: no further post,
\* no delay after it, None returned and routes_failed exactly one higher.
C4_NoLegsDefinitive ==
    last_outcome = "no_legs" =>
        /\ pc # "post"
        /\ pc = "returned" =>
              /\ result = None
              /\ sleeps = posts - 1
              /\ routes_failed = pre.routes_failed + 1
              /\ routes_generated = pre.routes_generated

\* the first answer of a call that may make three attempts has no leg
C4_Witness ==
    /\ pc = "returned"
    /\ last_outcome = "no_legs"
    /\ posts = 1
    /\ max_retries = 3

\* C5 (as claimed): after any 4xx answer no further attempt is made.
C5_ClientErrorNeverRetried == last_outcome \in ClientErrors => pc # "post"

\* C5 (amended): only HTTP 400 is definitive.  Any other client-error status
\* is handled like a server error: it is retried while attempts remain and
\* ends the call, as a failure, only once max_retries posts were made.
C5_Only400Definitive ==
    /\ last_outcome = "http_400" => pc # "post"
    /\ (last_outcome = "http_4xx" /\ pc = "post") => posts < max_retries
    /\ (last_outcome = "http_4xx" /\ pc = "returned") =>
          /\ posts = max_retries
          /\ result = None

\* a 404 answered the first attempt and the second attempt is about to be made
C5_Witness ==
    /\ pc = "post"
    /\ last_outcome = "http_4xx"
    /\ posts = 1
    /\ sleeps = 1

\* the geometries among what the calls returned, in call order
RECURSIVE Succeeded(_)
Succeeded(rs) ==
    IF rs = <<>> THEN <<>>
    ELSE Succeeded(SubSeq(rs, 1, Len(rs) - 1)) \o rs[Len(rs)]

\* C6: generate_batch calls generate_route once per pair, in list order,
\* whatever earlier calls returned, and returns the geometries of the pairs
\* that succeeded, in input order.
C6_BatchCallsEveryPair ==
    /\ Len(calls) <= Len(station_pairs)
    /\ calls = SubSeq(station_pairs, 1, Len(calls))
    /\ \A j \in 1..Len(results) :
          results[j] # None => results[j] = Some(Geometry(calls[j][1], calls[j][2]))
    /\ pc = "done" =>
          /\ calls = station_pairs
          /\ Len(results) = Len(station_pairs)
          /\ routes = Succeeded(results)

\* a batch of two whose first pair failed and whose second pair succeeded
C6_Witness ==
    /\ pc = "done"
    /\ Len(station_pairs) = 2
    /\ results[1] = None
    /\ results[2] # None
    /\ Len(routes) = 1

-----------------------------------------------------------------------------
(* Properties of deduplicate_bidirectional, checked under SpecDedup *)

\* the part of the input the loop has gone through
Processed == SubSeq(dd_routes, 1, dd_idx)

KeysOf(rs) == {StatKey(rs[j]) : j \in 1..Len(rs)}

\* the positions of the processed input whose route has key k
Occ(k) == {j \in 1..dd_idx : StatKey(dd_routes[j]) = k}

MinOf(S) == CHOOSE x \in S : \A y \in S : x <= y

MaxOf(S) == CHOOSE x \in S : \A y \in S : y <= x

InSeq(x, rs) == \E j \in 1..Len(rs) : rs[j] = x

\* every ordered station pair occurs at most once in rs
NoRepeatedPair(rs) ==
    \A j, k \in 1..Len(rs) :
        (/\ rs[j].departure_station_id = rs[k].departure_station_id
         /\ rs[j].return_station_id = rs[k].return_station_id) => j = k

Swapped(a, b) ==
    /\ a.departure_station_id = b.return_station_id
    /\ a.return_station_id = b.departure_station_id

\* C7: for an input without repeated ordered pairs, the unique list is no
\* longer than the input, and of two input pairs with swapped endpoints
\* exactly one is in the unique list and the other is the reverse_map entry
\* under their key.
C7_SwappedPairsSplit ==
    (pc \in {"deduped", "batch"} /\ NoRepeatedPair(dd_routes)) =>
        /\ Len(unique_routes) <= Len(dd_routes)
        /\ \A j, k \in 1..Len(dd_routes) :
              Swapped(dd_routes[j], dd_routes[k]) =>
                 LET a == dd_routes[j]
                     b == dd_routes[k]
                 IN  /\ StatKey(a) \in DOMAIN reverse_map
                     /\ \/ /\ InSeq(a, unique_routes)
                           /\ ~InSeq(b, unique_routes)
                           /\ reverse_map[StatKey(a)] = b
                        \/ /\ InSeq(b, unique_routes)
                           /\ ~InSeq(a, unique_routes)
                           /\ reverse_map[StatKey(a)] = a

\* 067->030, 030->045, 030->067 was deduplicated
C7_Witness ==
    /\ pc = "deduped"
    /\ NoRepeatedPair(dd_routes)
    /\ Len(dd_routes) = 3
    /\ dd_routes[1].departure_station_id = "067"
    /\ dd_routes[1].return_station_id = "030"
    /\ Swapped(dd_routes[1], dd_routes[3])
    /\ Len(unique_routes) = 2

\* the first route of each key, in input order
RECURSIVE FirstOccurrences(_)
FirstOccurrences(rs) ==
    IF rs = <<>> THEN <<>>
    ELSE LET front == SubSeq(rs, 1, Len(rs) - 1)
             last == rs[Len(rs)]
         IN  IF StatKey(last) \in KeysOf(front)
                THEN FirstOccurrences(front)
                ELSE Append(FirstOccurrences(front), last)

C9_UniqueRoutesCanonical ==
    \A j \in 1..Len(unique_routes) :
        StrLess(unique_routes[j].departure_station_id,
                unique_routes[j].return_station_id)

\* C10: for any input, each key has exactly one representative, the first
\* occurrence, and a reverse record exactly when it occurred more than once:
\* the last occurrence.  Later occurrences leave the unique list alone.
C10_OneRepresentativeLastWins ==
    /\ Len(unique_routes) = Cardinality(KeysOf(Processed))
    /\ Len(unique_routes) <= dd_idx
    /\ \A k \in KeysOf(Processed) :
          /\ Cardinality({j \in 1..Len(unique_routes) :
                             StatKey(unique_routes[j]) = k}) = 1
          /\ InSeq(dd_routes[MinOf(Occ(k))], unique_routes)
    /\ DOMAIN reverse_map = {k \in KeysOf(Processed) : Cardinality(Occ(k)) >= 2}
    /\ \A k \in DOMAIN reverse_map : reverse_map[k] = dd_routes[MaxOf(Occ(k))]

\* one key occurred three times; the reverse record is the third row, which
\* differs from the second
C10_Witness ==
    /\ dd_idx = 3
    /\ Cardinality(KeysOf(Processed)) = 1
    /\ dd_routes[2] # dd_routes[3]
    /\ dd_routes[1] # dd_routes[3]
    /\ reverse_map[StatKey(dd_routes[1])] = dd_routes[3]
    /\ unique_routes = <<dd_routes[1]>>

-----------------------------------------------------------------------------
(* Properties of the selection functions, checked under SpecSelect *)

\* the rows the selections choose from
AllRows == RouteStatisticsRows(1)

SeqRange(rs) == {rs[j] : j \in 1..Len(rs)}

IsDescending(rs) ==
    \A j \in 1..(Len(rs) - 1) : rs[j].trip_count >= rs[j + 1].trip_count

NoDuplicates(rs) == \A a, b \in 1..Len(rs) : a # b => rs[a] # rs[b]

\* rs lists, without repetition and in descending order, rows none of which
\* has fewer trips than a row left out: the first Len(rs) rows of a
\* descending order of the statistics
IsTopOf(rs, rows) ==
    /\ NoDuplicates(rs)
    /\ SeqRange(rs) \subseteq rows
    /\ IsDescending(rs)
    /\ \A r \in rows \ SeqRange(rs) :
          \A j \in 1..Len(rs) : rs[j].trip_count >= r.trip_count

\* all trips between different stations, and those that leave station s
TotalTrips ==
    SumTrips(CHOOSE rs \in DescOrders(AllRows) : TRUE)

StationTotal(s) ==
    SumTrips(CHOOSE rs \in DescOrders(StationRows(s)) : TRUE)

\* C11: get_top_n_routes(n), n >= 1, returns min(n, number of rows) rows, the
\* first ones of a descending order of the statistics, sorted by trip count
\* descending; get_routes_by_station_top_n(n) lists at most n rows under each
\* station, all of them departing from it.
C11_TopNSizeAndOrder ==
    /\ pc = "top_n" =>
          /\ Len(selected) = IF sel_arg <= Cardinality(AllRows)
                                THEN sel_arg ELSE Cardinality(AllRows)
          /\ IsTopOf(selected, AllRows)
    /\ pc = "station_top_n" =>
          \A s \in DOMAIN selected :
              /\ Len(selected[s]) <= sel_arg
              /\ \A j \in 1..Len(selected[s]) :
                    /\ selected[s][j] \in AllRows
                    /\ selected[s][j].departure_station_id = s

\* the top 2 of 4 rows, where a row left out has as many trips as the last
\* row taken
C11_Witness ==
    /\ pc = "top_n"
    /\ sel_arg = 2
    /\ Cardinality(AllRows) = 4
    /\ Len(selected) = 2
    /\ \E r \in AllRows \ SeqRange(selected) :
          r.trip_count = selected[2].trip_count

\* C12: get_global_coverage_routes(pct) on a non-empty statistics list
\* returns the first rows of a descending order whose trips add up to at
\* least pct/100 of all trips, and no fewer rows would do: without its last
\* row the result is below that threshold.
C12_GlobalCoverageMinimal ==
    (pc = "global_coverage" /\ AllRows # {}) =>
        /\ Len(selected) >= 1
        /\ IsTopOf(selected, AllRows)
        /\ SumTrips(selected) * 100 >= sel_arg * TotalTrips
        /\ (SumTrips(selected) - selected[Len(selected)].trip_count) * 100
              < sel_arg * TotalTrips

\* C13: under every station, the routes get_routes_by_station_coverage(pct)
\* lists add up to at least pct/100 of the trips that leave the station (the
\* route that crosses the threshold is included).
C13_StationCoverageReachesPct ==
    pc = "station_coverage" =>
        \A s \in DOMAIN selected :
            SumTrips(selected[s]) * 100 >= sel_arg * StationTotal(s)

\* the stations that have a trip to another station
StationsWithTrips ==
    {p[1] : p \in {q \in DOMAIN trips : q[1] # q[2] /\ trips[q] >= 1}}

\* the most trips a pair from station s to another station has
TopCount(s) ==
    CHOOSE c \in {trips[p] : p \in {q \in DOMAIN trips : q[1] = s /\ q[2] # s}} :
        \A p \in {q \in DOMAIN trips : q[1] = s /\ q[2] # s} : trips[p] <= c

\* C14: get_routes_by_station_coverage lists, for every station that has a
\* trip to another station, at least one route, the first being a route of
\* the station with the most trips, and only routes that depart from the
\* station.
C14_StationCoverageNonEmpty ==
    pc = "station_coverage" =>
        /\ DOMAIN selected = StationsWithTrips
        /\ \A s \in DOMAIN selected :
              /\ Len(selected[s]) >= 1
              /\ selected[s][1].trip_count = TopCount(s)
              /\ \A j \in 1..Len(selected[s]) :
                    /\ selected[s][j] \in AllRows
                    /\ selected[s][j].departure_station_id = s

\* the top route of "030" alone has more than the requested share of the
\* station's trips (and more than the percentage lets through), and the
\* station has other routes
C14_Witness ==
    /\ pc = "station_coverage"
    /\ "030" \in DOMAIN selected
    /\ Cardinality(StationRows("030")) >= 2
    /\ Len(selected["030"]) = 1
    /\ ~PctAtMost(selected["030"][1].trip_count, StationTotal("030"), sel_arg)

-----------------------------------------------------------------------------
(* Properties of main, RoutePipeline.run and RouteFileWriter, checked      *)
(* under SpecRun                                                           *)

\* the run has taken the step
Logged(step) == \E j \in 1..Len(run_log) : run_log[j] = step

\* the positions of the geometries whose key has a reverse record
WithReverse == {j \in 1..Len(routes) : routes[j].route_key \in DOMAIN reverse_map}

\* the entries of station_routes, as (station, position) pairs
OrganizedEntries ==
    UNION {{<<s, k>> : k \in 1..Len(station_routes[s])} :
              s \in DOMAIN station_routes}

\* C15: organize_by_station lists every geometry under its departure
\* station and, exactly when its key has a reverse record, one more entry
\* under the departure station of that record, with the record's (swapped)
\* ids and the key, polyline, distance and duration of the geometry; there
\* are no other entries, so the only stations listed are departures of
\* geometries and of such reverse records.
C15_OrganizeByStation ==
    Logged("organize") =>
        /\ \A j \in 1..Len(routes) :
              /\ routes[j].departure_station_id \in DOMAIN station_routes
              /\ InSeq(routes[j], station_routes[routes[j].departure_station_id])
        /\ \A j \in WithReverse :
              LET g == routes[j]
                  rev == reverse_map[g.route_key]
              IN  /\ rev.departure_station_id = g.return_station_id
                  /\ rev.return_station_id = g.departure_station_id
                  /\ rev.departure_station_id \in DOMAIN station_routes
                  /\ Cardinality(
                        {k \in 1..Len(station_routes[rev.departure_station_id]) :
                            station_routes[rev.departure_station_id][k] =
                                [route_key |-> g.route_key,
                                 departure_station_id |-> rev.departure_station_id,
                                 return_station_id |-> rev.return_station_id,
                                 polyline |-> g.polyline,
                                 distance_km |-> g.distance_km,
                                 duration_minutes |-> g.duration_minutes]}) = 1
        /\ Cardinality(OrganizedEntries) = Len(routes) + Cardinality(WithReverse)
        /\ DOMAIN station_routes =
              {routes[j].departure_station_id : j \in 1..Len(routes)}
              \cup {reverse_map[routes[j].route_key].departure_station_id :
                       j \in WithReverse}

\* two geometries from "030", one of them with a reverse record: "067" gets
\* the synthesized entry, "045", which is only a destination, gets nothing
C15_Witness ==
    /\ Logged("organize")
    /\ Len(routes) = 2
    /\ Cardinality(WithReverse) = 1
    /\ \A j \in 1..2 : routes[j].departure_station_id = "030"
    /\ DOMAIN station_routes = {"030", "067"}
    /\ Len(station_routes["030"]) = 2
    /\ Len(station_routes["067"]) = 1

\* C16: in every station file, the entry of a geometry that was requested
\* from the routing service (listed under its departure station) has
\* direction "forward" and an entry synthesized from a reverse record has
\* direction "reverse", whichever direction of the pair was seen first.
C16_RequestedDirectionIsForward ==
    Logged("write") =>
        \A s \in DOMAIN station_routes :
            StationFileName(s) \in DOMAIN files =>
                \A k \in 1..Len(files[StationFileName(s)].routes) :
                    files[StationFileName(s)].routes[k].direction =
                        IF \E j \in 1..Len(routes) :
                              /\ routes[j].departure_station_id = s
                              /\ routes[j].return_station_id =
                                    files[StationFileName(s)].routes[k].to
                           THEN "forward" ELSE "reverse"

\* the parameter of an enabled strategy is in its range
ValidStrategy(strategy) ==
    \/ strategy = None
    \/ /\ strategy[1].selection_type = "top_n"
       /\ strategy[1].top_n[1] >= 1
    \/ /\ strategy[1].selection_type = "percentage"
       /\ 0 < strategy[1].coverage_percentage[1]
       /\ strategy[1].coverage_percentage[1] <= 100

\* the options of an enabled scope ask for a strategy whose parameter is out
\* of range
AsksInvalid(no, top, pct) ==
    /\ ~no
    /\ IF Truthy(top) THEN top[1] < 1
       ELSE Truthy(pct) /\ ~(0 < pct[1] /\ pct[1] <= 100)

ArgsAskInvalid ==
    \/ AsksInvalid(args.no_global, args.global_top, args.global_pct)
    \/ AsksInvalid(args.no_individual, args.individual_top, args.individual_pct)
    \/ AsksInvalid(args.no_aggregate, args.aggregate_top, args.aggregate_pct)

\* C17: a strategy with n < 1 or with a percentage outside (0, 100] is
\* rejected when it is constructed: the configuration of a run holds valid
\* strategies only, and a command line that asks for an invalid one ends main
\* with an error before any route is selected.
C17_InvalidStrategyRejected ==
    /\ config # None =>
          /\ ValidStrategy(Cfg.global_strategy)
          /\ ValidStrategy(Cfg.individual_strategy)
          /\ ValidStrategy(Cfg.per_station_aggregate_strategy)
    /\ (pc # "main" /\ ArgsAskInvalid) =>
          /\ pc = "exit"
          /\ exit_code = Some(1)
          /\ config = None
          /\ ~Logged("select")

\* --global-top -1 together with --individual-pct -5
C17_Witness ==
    /\ pc = "exit"
    /\ args.global_top = Some(-1)
    /\ args.individual_pct = Some(-5)
    /\ exit_code = Some(1)
    /\ run_log = <<"build_config">>

\* the command line enables no scope
NoScopeEnabled ==
    /\ args.no_global
    /\ args.no_individual
    /\ \/ args.no_aggregate
       \/ ~Truthy(args.aggregate_top) /\ ~Truthy(args.aggregate_pct)

\* C18: when no scope is enabled, building the configuration fails: main
\* ends with a non-zero exit code without having opened a database
\* connection or sent a request to the routing service.
C18_NoStrategyFailsFast ==
    (pc # "main" /\ NoScopeEnabled) =>
        /\ pc = "exit"
        /\ exit_code # None
        /\ exit_code[1] # 0
        /\ config = None
        /\ run_log = <<"build_config">>
        /\ conn = "none"
        /\ total_requests = 0
        /\ calls = <<>>
        /\ files = <<>>

\* --no-global --no-individual --no-aggregate, with a valid --min-trips
C18_Witness ==
    /\ pc = "exit"
    /\ args.no_global
    /\ args.no_individual
    /\ args.no_aggregate
    /\ args.min_trips = 1
    /\ exit_code = Some(1)

\* the route has a station without a fetched coordinate
MissingCoord(r) ==
    \/ r.departure_station_id \notin station_coords
    \/ r.return_station_id \notin station_coords

PairOf(r) == <<r.departure_station_id, r.return_station_id>>

\* C19: once _generate_geometries has prepared the batch, a deduplicated
\* pair with a missing coordinate is not in the batch, is never handed to
\* generate_route and is in no ledger entry; the other pairs are all in the
\* batch and, when the batch is over, have all been called; the counters
\* count those calls only (nothing at all when every pair was skipped).
C19_MissingCoordinateSkipped ==
    (Logged("fetch_coordinates") /\ pc # "deduped") =>
        /\ \A j \in 1..Len(unique_routes) :
              IF MissingCoord(unique_routes[j])
                 THEN /\ ~InSeq(PairOf(unique_routes[j]), station_pairs)
                      /\ ~InSeq(PairOf(unique_routes[j]), calls)
                      /\ \A k \in 1..Len(failed_routes) :
                            <<failed_routes[k].from, failed_routes[k].to>>
                                # PairOf(unique_routes[j])
                 ELSE /\ InSeq(PairOf(unique_routes[j]), station_pairs)
                      /\ Logged("organize") =>
                            InSeq(PairOf(unique_routes[j]), calls)
        /\ Len(station_pairs) =
              Cardinality({j \in 1..Len(unique_routes) :
                              ~MissingCoord(unique_routes[j])})
        /\ Len(calls) <= Len(station_pairs)
        /\ routes_generated + routes_failed <= Len(calls)
        /\ total_requests <= max_retries * Len(calls)
        /\ Len(failed_routes) <= routes_failed
        /\ station_pairs = <<>> =>
              /\ total_requests = 0
              /\ routes_generated = 0
              /\ routes_failed = 0
              /\ failed_routes = <<>>

\* of two deduplicated pairs one was skipped; the other was generated at the
\* first attempt
C19_Witness ==
    /\ pc = "done"
    /\ Len(unique_routes) = 2
    /\ Cardinality({j \in 1..2 : MissingCoord(unique_routes[j])}) = 1
    /\ Len(calls) = 1
    /\ Len(routes) = 1
    /\ routes_generated = 1
    /\ total_requests = 1
    /\ routes_failed = 0

\* C20: when the database connection or the status check of the routing
\* service fails, the run is over at once, with a non-zero exit code:
\* nothing was selected, no routing request was sent and nothing was written.
C20_ConnectivityFailureAborts ==
    (Logged("connect_failed") \/ Logged("test_connection_failed")) =>
        /\ pc = "exit"
        /\ exit_code # None
        /\ exit_code[1] # 0
        /\ ~Logged("select")
        /\ global_routes = <<>>
        /\ per_station_routes = <<>>
        /\ dd_routes = <<>>
        /\ unique_routes = <<>>
        /\ station_pairs = <<>>
        /\ calls = <<>>
        /\ total_requests = 0
        /\ station_routes = <<>>
        /\ files = <<>>

\* the status check failed on a database that has trips: the connection that
\* was opened is closed again
C20_Witness ==
    /\ pc = "exit"
    /\ Logged("test_connection_failed")
    /\ conn = "closed"
    /\ RouteStatisticsRows(1) # {}
    /\ exit_code = Some(1)

\* the calls of generate_route that returned None
FailedCalls == {j \in 1..Len(results) : results[j] = None}

\* C21: once the configuration was built, the database connected and the
\* status check passed, the run goes on to organize, write and report and
\* main returns 0, whatever the calls of generate_route return (also when
\* every one of them fails).
C21_PairFailuresNeverFailRun ==
    Logged("test_connection") ~>
        (/\ pc = "exit"
         /\ exit_code = Some(0)
         /\ Logged("organize")
         /\ Logged("write")
         /\ Logged("report"))

\* both pairs of the batch failed, one without a leg and one after three
\* attempts, and main has returned 0
C21_Witness ==
    /\ pc = "exit"
    /\ exit_code = Some(0)
    /\ Len(calls) = 2
    /\ FailedCalls = {1, 2}
    /\ routes = <<>>
    /\ total_requests = 4
    /\ Logged("report")

-----------------------------------------------------------------------------
(* The canonical key, checked under SpecGen *)

\* a RouteStatistics row of the pair (a, b)
StatRow(a, b) ==
    [departure_station_id |-> a, return_station_id |-> b, trip_count |-> 1]

\* C22: for station ids a # b the key of the statistics of (a, b) is the
\* key of the statistics of (b, a): the smaller id, "-", the larger id; the
\* geometry generate_route returns for a requested pair carries that key,
\* so the geometries of the two directions of a pair have the same key.
C22_CanonicalKeySymmetric ==
    /\ \A p \in OrderedPairs :
          /\ StatKey(StatRow(p[1], p[2])) = StatKey(StatRow(p[2], p[1]))
          /\ StatKey(StatRow(p[1], p[2])) =
                (IF StrLess(p[1], p[2]) THEN p[1] ELSE p[2]) \o "-" \o
                (IF StrLess(p[1], p[2]) THEN p[2] ELSE p[1])
    /\ \A j \in 1..Len(results) :
          results[j] # None =>
             /\ results[j][1].departure_station_id = calls[j][1]
             /\ results[j][1].return_station_id = calls[j][2]
             /\ results[j][1].route_key = StatKey(StatRow(calls[j][1], calls[j][2]))
             /\ results[j][1].route_key = StatKey(StatRow(calls[j][2], calls[j][1]))
    /\ \A j, k \in 1..Len(results) :
          (/\ results[j] # None
           /\ results[k] # None
           /\ calls[j] = <<calls[k][2], calls[k][1]>>) =>
              results[j][1].route_key = results[k][1].route_key

\* "030" -> "067" and then "067" -> "030" were requested and both generated
C22_Witness ==
    /\ pc = "done"
    /\ calls = << <<"030", "067">>, <<"067", "030">> >>
    /\ results[1] # None
    /\ results[2] # None
    /\ results[1][1].route_key = "030-067"
    /\ results[2][1].polyline # results[1][1].polyline

-----------------------------------------------------------------------------
(* Cancellation, checked under SpecRunInterrupt *)

\* C23 (as claimed): after an interrupt of the batch loop the geometries
\* generated so far are still the result of the batch, at hand for
\* organizing and writing, and the output directory holds either nothing or
\* a complete output (with its manifest).
C23_PartialResultsSurviveInterrupt ==
    Logged("interrupted") =>
        /\ routes = Succeeded(results)
        /\ files = <<>> \/ "manifest.json" \in DOMAIN files

-----------------------------------------------------------------------------
(* Properties of the selection of RoutePipeline, checked under SpecRun *)

\* every route listed in the per-station dict ps is in the list rs
AllListed(ps, rs) ==
    \A s \in DOMAIN ps : \A j \in 1..Len(ps[s]) : InSeq(ps[s][j], rs)

\* C24 (as claimed): when the aggregate strategy is enabled, the routes it
\* selects from each station are among the routes to generate; over
\* statistics that are not empty the routes to generate are not empty then.
C24_AggregateRoutesSelected ==
    (Logged("select") /\ Cfg.per_station_aggregate_strategy # None) =>
        /\ \E ps \in RoutesPerStation(Cfg.per_station_aggregate_strategy[1]) :
              AllListed(ps, dd_routes)
        /\ RouteStatisticsRows(1) # {} => dd_routes # <<>>

\* C25 (as claimed): every route selected for generation has at least
\* min_trips_threshold trips, whatever the strategies.
C25_SelectedRoutesMeetMinTrips ==
    Logged("select") =>
        /\ \A j \in 1..Len(dd_routes) :
              dd_routes[j].trip_count >= Cfg.min_trips_threshold
        /\ \A j \in 1..Len(unique_routes) :
              unique_routes[j].trip_count >= Cfg.min_trips_threshold

-----------------------------------------------------------------------------
(* Monotonicity of the coverage selections, checked under SpecSelect *)

\* a is the beginning of b
IsPrefixOf(a, b) == Len(a) <= Len(b) /\ SubSeq(b, 1, Len(a)) = a

\* the trip counts of a are the beginning of those of b
CountsPrefixOf(a, b) ==
    /\ Len(a) <= Len(b)
    /\ \A j \in 1..Len(a) : a[j].trip_count = b[j].trip_count

\* the percentages not below the one of the call made
HigherPercentages == {p \in Percentages : p >= sel_arg}

-----------------------------------------------------------------------------
(* Retries and counters of RouteGenerator, checked under SpecGen *)

\* C27: when an attempt of a generate_route call (the k-th, after k - 1
\* attempts that failed and were retried, k <= max_retries) is answered
\* with a leg, the call returns the geometry of the pair, routes_generated
\* is one higher and total_requests k higher than when the call was
\* entered, routes_failed and the ledger are as they were; every call counts
\* its attempts from 1, whatever the calls before it used up.
C27_SuccessAfterRetries ==
    /\ pc = "post" =>
          /\ attempt = posts + 1
          /\ attempt <= max_retries
    /\ (pc = "returned" /\ last_outcome = "ok") =>
          /\ posts = attempt
          /\ posts <= max_retries
          /\ sleeps = posts - 1
          /\ result = Some(Geometry(CallPair[1], CallPair[2]))
          /\ routes_generated = pre.routes_generated + 1
          /\ total_requests = pre.total_requests + posts
          /\ routes_failed = pre.routes_failed
          /\ Len(failed_routes) = pre.ledger

\* the first call used its three attempts; the second call failed twice
\* and was answered with a leg at its third attempt
C27_Witness ==
    /\ pc = "returned"
    /\ max_retries = 3
    /\ Len(calls) = 2
    /\ pre.total_requests = 3
    /\ pre.routes_failed = 1
    /\ last_outcome = "ok"
    /\ posts = 3
    /\ sleeps = 2

\* the calls of generate_route that returned a geometry
SucceededCalls == {j \in 1..Len(results) : results[j] # None}

\* C28: with max_retries >= 1, a generate_route call that returns has made
\* between 1 and max_retries posts and has added one to exactly one counter:
\* to routes_generated when it returns a geometry, to routes_failed when it
\* returns None.  Between calls routes_generated counts the calls that
\* returned a geometry and routes_failed those that returned None, so their
\* sum is the number of calls, and calls <= total_requests <= max_retries *
\* calls.  (log_interval is the positive default.)
C28_CountersMatchCalls ==
    max_retries >= 1 =>
        /\ pc = "returned" =>
              /\ 1 <= posts
              /\ posts <= max_retries
              /\ total_requests = pre.total_requests + posts
              /\ IF result # None
                    THEN /\ routes_generated = pre.routes_generated + 1
                         /\ routes_failed = pre.routes_failed
                    ELSE /\ routes_generated = pre.routes_generated
                         /\ routes_failed = pre.routes_failed + 1
        /\ pc \in {"batch", "done"} =>
              /\ Len(results) = Len(calls)
              /\ routes_generated = Cardinality(SucceededCalls)
              /\ routes_failed = Cardinality(FailedCalls)
              /\ routes_generated + routes_failed = Len(calls)
              /\ Len(calls) <= total_requests
              /\ total_requests <= max_retries * Len(calls)

\* two calls: one ran out of its three attempts, the other was answered
\* with a leg at the first attempt
C28_Witness ==
    /\ pc = "done"
    /\ max_retries = 3
    /\ Len(calls) = 2
    /\ routes_generated = 1
    /\ routes_failed = 1
    /\ total_requests = 4
    /\ results[1] = None

-----------------------------------------------------------------------------
(* The station files and the manifest, checked under SpecRun *)

\* the destinations of the entries of the file written for station s
WrittenTo(s) ==
    IF StationFileName(s) \in DOMAIN files
       THEN {files[StationFileName(s)].routes[k].to :
                k \in 1..Len(files[StationFileName(s)].routes)}
       ELSE {}

\* the destinations of the per-station selection of station s
SelectedTo(s) ==
    IF s \in DOMAIN per_station_routes
       THEN {per_station_routes[s][j].return_station_id :
                j \in 1..Len(per_station_routes[s])}
       ELSE {}

\* a geometry of the pair {a, b} was generated
Generated(a, b) == \E k \in 1..Len(routes) : routes[k].route_key = RouteKey(a, b)

\* C29: with the individual strategy enabled, once the files are written,
\* the file of a station has an entry to every destination of the station's
\* per-station selection for which the geometry of the pair was generated,
\* whichever direction was the representative, and no entry to any other
\* destination; a station without selection has no file.
C29_StationFilesMatchSelection ==
    (Logged("write") /\ Cfg.individual_strategy # None) =>
        \A s \in Stations \cup DOMAIN station_routes :
            /\ \A t \in SelectedTo(s) : Generated(s, t) => t \in WrittenTo(s)
            /\ WrittenTo(s) \subseteq SelectedTo(s)

\* "067" -> "030" was the representative; the file of "030" has the entry
\* to "067", made from the reverse record, and not the generated route to
\* "045", which only the global strategy selected
C29_Witness ==
    /\ Logged("write")
    /\ Cfg.individual_strategy # None
    /\ Len(routes) = 2
    /\ routes[1].departure_station_id = "067"
    /\ Generated("030", "045")
    /\ "030" \in DOMAIN station_routes
    /\ Len(station_routes["030"]) = 2
    /\ SelectedTo("030") = {"067"}
    /\ WrittenTo("030") = {"067"}

\* C30 (as claimed): the success rate of get_statistics, which is the one
\* written to the manifest (in hundredths of a percent), is 0 when no request
\* was sent and is 100 percent exactly when generate_route was called for
\* at least one pair and no call failed, however many attempts the calls
\* needed.
C30_SuccessRateCountsPairs ==
    Logged("write") =>
        /\ files["manifest.json"].success_rate_pct = SuccessRatePct
        /\ total_requests = 0 => SuccessRatePct = 0
        /\ SuccessRatePct = 10000 <=> (Len(calls) >= 1 /\ routes_failed = 0)

=============================================================================
